---- MODULE Spec2Model ----
(***************************************************************************)
(* Leaderboard percentile resolver (taikoPointsByLevel).                   *)
(*                                                                         *)
(* The repository holds two programs:                                      *)
(*   "chan": src/main.go:1-134, sendRequest without a retry loop and       *)
(*           SetPointsForLevel collecting errors in a buffered channel;    *)
(*   "once": src/main.go:136-280 and src/unnamed/part_000 (the same code   *)
(*           under other names), the fetcher with the retry loop and the   *)
(*           resolver capturing the first error with sync.Once.            *)
(* The model runs one resolver call of either program against a backend    *)
(* that answers every HTTP attempt nondeterministically.                   *)
(***************************************************************************)
EXTENDS Integers, Sequences, FiniteSets, TLC

(***************************************************************************)
(* Bounds of the model.                                                    *)
(***************************************************************************)
\* How many entries of percentForTop one resolver call dispatches (a prefix).
NumPercentiles == 2
\* RankSpec draws the total from 0..MaxRankTotal (and from BigTotals).
MaxRankTotal == 400

(***************************************************************************)
(* Program constants.                                                      *)
(***************************************************************************)
retryLimit == 3

\* http.StatusOK
StatusOK == 200

\* percentForTop / topPercentages. num/den is the decimal literal of the
\* source; mant * 2^exp is the float64 the compiler stores for it, mant given
\* in limbs of 10 bits, least significant first (2^52 <= mant < 2^53).
percentForTop ==
  << [num |-> 1,  den |-> 10000, mant |-> <<813, 784, 689, 907, 566, 6>>, exp |-> -66],
     [num |-> 1,  den |-> 1000,  mant |-> <<508, 106, 303, 311, 98, 4>>,  exp |-> -62],
     [num |-> 1,  den |-> 200,   mant |-> <<123, 901, 122, 901, 122, 5>>, exp |-> -60],
     [num |-> 1,  den |-> 100,   mant |-> <<123, 901, 122, 901, 122, 5>>, exp |-> -59],
     [num |-> 3,  den |-> 100,   mant |-> <<696, 327, 696, 327, 696, 7>>, exp |-> -58],
     [num |-> 1,  den |-> 25,    mant |-> <<123, 901, 122, 901, 122, 5>>, exp |-> -57],
     [num |-> 3,  den |-> 50,    mant |-> <<696, 327, 696, 327, 696, 7>>, exp |-> -57],
     [num |-> 2,  den |-> 25,    mant |-> <<123, 901, 122, 901, 122, 5>>, exp |-> -56],
     [num |-> 1,  den |-> 10,    mant |-> <<410, 614, 409, 614, 409, 6>>, exp |-> -56],
     [num |-> 9,  den |-> 50,    mant |-> <<778, 245, 778, 245, 778, 5>>, exp |-> -55],
     [num |-> 13, den |-> 50,    mant |-> <<164, 860, 163, 860, 163, 4>>, exp |-> -54] >>

(***************************************************************************)
(* float64 arithmetic of  int(float64(totalUsers) * percent).              *)
(* float64(totalUsers) is exact for 0 <= totalUsers < 2^20, the range of   *)
(* the model; the product is rounded to 53 bits, ties to even, and the     *)
(* conversion to int drops the fraction.                                   *)
(***************************************************************************)
LimbBase == 2^10

RECURSIVE MulLimbs(_, _, _)
\* limbs * n + carry, in limbs (least significant first).
MulLimbs(limbs, n, carry) ==
  IF limbs = <<>>
    THEN IF carry = 0 THEN <<>>
         ELSE <<carry % LimbBase>> \o MulLimbs(<<>>, n, carry \div LimbBase)
    ELSE LET v == Head(limbs) * n + carry
         IN  <<v % LimbBase>> \o MulLimbs(Tail(limbs), n, v \div LimbBase)

RECURSIVE IntBits(_, _)
\* The k low bits of v, least significant first.
IntBits(v, k) ==
  IF k = 0 THEN <<>> ELSE <<v % 2>> \o IntBits(v \div 2, k - 1)

RECURSIVE LimbsToBits(_)
LimbsToBits(limbs) ==
  IF limbs = <<>> THEN <<>>
  ELSE IntBits(Head(limbs), 10) \o LimbsToBits(Tail(limbs))

RECURSIVE StripZeros(_)
\* Drops the zero bits above the most significant one.
StripZeros(bits) ==
  IF bits = <<>> THEN <<>>
  ELSE IF bits[Len(bits)] = 0 THEN StripZeros(SubSeq(bits, 1, Len(bits) - 1))
  ELSE bits

RECURSIVE IncBits(_)
\* bits + 1.
IncBits(bits) ==
  IF bits = <<>> THEN <<1>>
  ELSE IF Head(bits) = 0 THEN <<1>> \o Tail(bits)
  ELSE <<0>> \o IncBits(Tail(bits))

RECURSIVE BitsToInt(_)
BitsToInt(bits) ==
  IF bits = <<>> THEN 0 ELSE Head(bits) + 2 * BitsToInt(Tail(bits))

\* Rounds an exact product to a 53-bit significand, ties to even:
\* [sig |-> bits, shift |-> number of low bits dropped].
RoundToFloat64(bits) ==
  IF Len(bits) <= 53 THEN [sig |-> bits, shift |-> 0]
  ELSE LET s      == Len(bits) - 53
           kept   == SubSeq(bits, s + 1, Len(bits))
           half   == bits[s]
           sticky == \E j \in 1..(s - 1) : bits[j] = 1
           up     == half = 1 /\ (sticky \/ kept[1] = 1)
       IN  [sig |-> IF up THEN IncBits(kept) ELSE kept, shift |-> s]

\* float64(total) * percent, as [sig, e]: the value sig * 2^e.
Float64Mul(total, percent) ==
  LET exact == StripZeros(LimbsToBits(MulLimbs(percent.mant, total, 0)))
      r     == RoundToFloat64(exact)
  IN  [sig |-> r.sig, e |-> percent.exp + r.shift]

\* int(f) of a non-negative float64 below 2^31: the fraction is dropped.
Float64ToInt(f) ==
  IF f.e >= 0 THEN BitsToInt(f.sig) * 2^(f.e)
  ELSE IF -(f.e) >= Len(f.sig) THEN 0
  ELSE BitsToInt(SubSeq(f.sig, 1 - f.e, Len(f.sig)))

\* Faulty variant: a rank below 1 is raised to 1.
RankAtLeastOne(total, percent) ==
  IF Float64ToInt(Float64Mul(total, percent)) < 1
    THEN 1 ELSE Float64ToInt(Float64Mul(total, percent))
\* Faulty variant: the product rounded up.
RankCeil(total, percent) ==
  (total * percent.num + percent.den - 1) \div percent.den
\* rank := int(float64(totalUsers) * percent)
RankOf(total, percent) == Float64ToInt(Float64Mul(total, percent))

\* floor(total * p) for the decimal p = num/den, in exact arithmetic.
FloorOfProduct(total, percent) == (total * percent.num) \div percent.den

\* Faulty variant: rounding to the nearest integer.
TruncRound(tenths) == (tenths + 5) \div 10
\* int(x) of a float64 score given in tenths: the fraction is dropped,
\* toward zero.
TruncToInt(tenths) ==
  IF tenths >= 0 THEN tenths \div 10 ELSE -((-tenths) \div 10)

(***************************************************************************)
(* Values.                                                                 *)
(***************************************************************************)
\* An error is the chain of its fmt.Errorf layers, outermost first; nil is
\* the empty chain.
nil == <<>>

ErrLayer(msg, code, body, rank) ==
  [msg |-> msg, code |-> code, body |-> body, rank |-> rank]

\* A layer that carries a message only.
Msg(msg) == ErrLayer(msg, -1, "", -1)

\* fmt.Errorf("...: %v", err)
Wrap(layer, err) == <<layer>> \o err

\* Response{}: the zero value.
ZeroResponse == [Total |-> 0, Users |-> <<>>]

\* What one client.Do(req) can bring back: a transport error, or an HTTP
\* response with a status and a body that decodes into a Response or not.
TransportFailure ==
  [transport |-> TRUE, status |-> 0, raw |-> "", decodes |-> FALSE,
   data |-> ZeroResponse]

HttpReply(status, raw, decodes, data) ==
  [transport |-> FALSE, status |-> status, raw |-> raw, decodes |-> decodes,
   data |-> data]

\* Totals the backend may report on the base endpoint (none negative: the
\* rank of a negative total is outside what the properties speak of).
Totals == {0, 5000, 1000000}

\* Entry lists the backend may return for ?page=<rank>&size=1; TotalScore is
\* given in tenths (50007 is 5000.7).
UserLists ==
  { <<>>,
    << [TotalScore |-> 50007] >>,
    << [TotalScore |-> -15], [TotalScore |-> 30002] >> }

\* page < 0 stands for the base endpoint.
BaseURL == -1

Replies(url) ==
  {TransportFailure,
   HttpReply(404, "not found", FALSE, ZeroResponse),
   HttpReply(500, "oops", FALSE, ZeroResponse),
   HttpReply(StatusOK, "<html>", FALSE, ZeroResponse)}
  \cup
  (IF url = BaseURL
     THEN {HttpReply(StatusOK, "json", TRUE, [Total |-> t, Users |-> <<>>]) :
             t \in Totals}
     ELSE {HttpReply(StatusOK, "json", TRUE, [Total |-> 0, Users |-> us]) :
             us \in UserLists})

(***************************************************************************)
(* State.                                                                  *)
(***************************************************************************)
Percentiles == SubSeq(percentForTop, 1, NumPercentiles)

Tasks == 1..Len(Percentiles)

\* Caller 0 is the resolver's own fetch of the total; caller i > 0 is the
\* goroutine of Percentiles[i].
Callers == 0..Len(Percentiles)

VARIABLES
  variant,     \* which program runs: "chan" or "once"
  pc,          \* the resolver: Idle, FetchingTotal, DispatchingLookups,
               \* Aggregating, Succeeded, Failed
  totalUsers,  \* totalUsers of the resolver
  fetch,       \* per caller: the frame of sendRequest / fetchResponse
  task,        \* per goroutine: its position and its rank
  next,        \* the index the dispatch loop is at
  wg,          \* sync.WaitGroup counter
  result,      \* result / points: the pre-sized buffer
  once,        \* sync.Once: done
  finalErr,    \* finalErr / finalError
  errChan,     \* errChan: the buffered errors
  ret,         \* what the resolver returned
  finished,    \* history: the goroutines in the order they completed
  rk           \* RankSpec: one evaluation of the rank expression

vars == <<variant, pc, totalUsers, fetch, task, next, wg, result, once,
          finalErr, errChan, ret, finished, rk>>

resolverVars == <<variant, pc, totalUsers, fetch, task, next, wg, result,
                  once, finalErr, errChan, ret, finished>>

IdleFetch ==
  [st |-> "idle", url |-> BaseURL, attempts |-> 0, calls |-> 0,
   slept |-> <<>>, replies |-> <<>>, response |-> ZeroResponse, err |-> nil]

NoReturn == [returned |-> FALSE, isNil |-> TRUE, vec |-> <<>>, err |-> nil]

IdleRank == [total |-> 0, idx |-> 1, st |-> "idle", rank |-> -1]

ResolverInit ==
  /\ pc = "Idle"
  /\ totalUsers = 0
  /\ fetch = [c \in Callers |-> IdleFetch]
  /\ task = [i \in Tasks |-> [pc |-> "unborn", rank |-> -1]]
  /\ next = 1
  /\ wg = 0
  /\ result = <<>>
  /\ once = FALSE
  /\ finalErr = nil
  /\ errChan = <<>>
  /\ ret = NoReturn
  /\ finished = <<>>

Init ==
  /\ variant \in {"chan", "once"}
  /\ ResolverInit
  /\ rk = IdleRank

(***************************************************************************)
(* HTTP fetcher: sendRequest / fetchResponse.                              *)
(***************************************************************************)
\* The frame of a fetch that has just been called.
StartFetch(url) == [IdleFetch EXCEPT !.st = "loop", !.url = url]

\* for attempts := 0; attempts < retryLimit; attempts++
LoopCond(attempts) == attempts < retryLimit

\* Faulty variant: one attempt fewer.
RetryOnceOnly(attempts) == attempts < retryLimit - 2
\* Faulty variant: the last allowed attempt is retried too.
RetryOnceMore(attempts) == attempts < retryLimit
\* if attempts < retryLimit-1 { time.Sleep(...); continue }
ShouldRetry(attempts) == attempts < retryLimit - 1

\* Faulty variant: a constant wait.
BackoffConstant(attempts) == 1
\* time.Sleep(time.Second * time.Duration(attempts+1)), in seconds.
Backoff(attempts) == attempts + 1

\* Faulty variant: only 5xx counts as a bad status.
ServerErrorsOnly(status) == status >= 500
\* if resp.StatusCode != http.StatusOK
IsBadStatus(status) == status # StatusOK

Returned(f, response, err) ==
  [f EXCEPT !.st = "ret", !.response = response, !.err = err]

\* fmt.Errorf("error decoding JSON response: %v", err) around the decoder's
\* error.
DecodeError == Wrap(Msg("error decoding JSON response"), <<Msg("json")>>)

\* Faulty variant: a body that does not decode is retried like a transport
\* error.
OnHttpResponseRetryDecode(f, reply) ==
  IF IsBadStatus(reply.status)
    THEN Returned(f, ZeroResponse,
                  <<ErrLayer("non-200 status code", reply.status, reply.raw, -1)>>)
  ELSE IF ~reply.decodes
    THEN IF ShouldRetry(f.attempts)
           THEN [f EXCEPT !.slept = Append(@, Backoff(f.attempts)),
                          !.attempts = @ + 1]
           ELSE Returned(f, ZeroResponse, DecodeError)
  ELSE Returned(f, reply.data, nil)
\* What follows a client.Do that came back with an HTTP response, in both
\* programs.
OnHttpResponse(f, reply) ==
  IF IsBadStatus(reply.status)
    THEN Returned(f, ZeroResponse,
                  <<ErrLayer("non-200 status code", reply.status, reply.raw, -1)>>)
  ELSE IF ~reply.decodes
    THEN Returned(f, ZeroResponse, DecodeError)
  ELSE Returned(f, reply.data, nil)

\* One pass of the retry loop of sendRequest (src/main.go:178) and
\* fetchResponse, with the reply its client.Do gets.  http.NewRequest does not
\* fail on the two URLs the program builds.
RetryingPass(f, reply) ==
  LET g == [f EXCEPT !.calls = @ + 1, !.replies = Append(@, reply)]
  IN  IF reply.transport
        THEN IF ShouldRetry(f.attempts)
               THEN LET h == [g EXCEPT !.slept = Append(@, Backoff(f.attempts)),
                                       !.attempts = @ + 1]
                    IN  IF LoopCond(h.attempts) THEN h
                        ELSE Returned(h, ZeroResponse, <<Msg("retries exceeded")>>)
               ELSE Returned(g, ZeroResponse,
                             Wrap(Msg("error sending request after retries"),
                                  <<Msg("transport")>>))
        ELSE OnHttpResponse(g, reply)

\* The body of sendRequest without the loop (src/main.go:43).
SinglePass(f, reply) ==
  LET g == [f EXCEPT !.calls = @ + 1, !.replies = Append(@, reply)]
  IN  IF reply.transport
        THEN Returned(g, ZeroResponse,
                      Wrap(Msg("error sending request"), <<Msg("transport")>>))
        ELSE OnHttpResponse(g, reply)

\* One client.Do of caller c and what the fetcher does with its reply.
FetchAttempt(c) ==
  /\ fetch[c].st = "loop"
  /\ \E reply \in Replies(fetch[c].url) :
       fetch' = [fetch EXCEPT ![c] = IF variant = "once"
                                       THEN RetryingPass(@, reply)
                                       ELSE SinglePass(@, reply)]
  /\ UNCHANGED <<variant, pc, totalUsers, task, next, wg, result, once,
                 finalErr, errChan, ret, finished, rk>>

(***************************************************************************)
(* Leaderboard client: getTotalWallets, getTotalPoints/getUserTotalPoints. *)
(***************************************************************************)
\* getTotalWallets, from the frame of its fetch once that has returned.
GetTotalWallets(f) ==
  IF f.err # nil
    THEN [val |-> 0, err |-> Wrap(Msg("failed to get total wallets"), f.err)]
    ELSE [val |-> f.response.Total, err |-> nil]

\* Faulty variant: the last entry of the page.
LastUser(users) == users[Len(users)]
\* Which entry of the page is read: response.Data.Users[0].
FirstUser(users) == users[1]

\* Faulty variant: no check for an empty page.
GetTotalPointsNoCheck(f) ==
  IF f.err # nil
    THEN [val |-> 0, err |-> Wrap(Msg("failed to get total points"), f.err)]
  ELSE IF Len(f.response.Users) = 0
    THEN [val |-> 0, err |-> nil]
  ELSE [val |-> TruncToInt(FirstUser(f.response.Users).TotalScore), err |-> nil]
\* getTotalPoints, from the frame of its fetch once that has returned.
GetTotalPoints(f) ==
  IF f.err # nil
    THEN [val |-> 0, err |-> Wrap(Msg("failed to get total points"), f.err)]
  ELSE IF Len(f.response.Users) = 0
    THEN [val |-> 0, err |-> <<Msg("no users found in response")>>]
  ELSE [val |-> TruncToInt(FirstUser(f.response.Users).TotalScore), err |-> nil]

(***************************************************************************)
(* Percentile resolver: SetPointsForLevel / calculatePointsForTopUsers.    *)
(***************************************************************************)
\* Faulty variant: the buffer is returned beside the error.
ReturnPartial(err, res) ==
  [returned |-> TRUE, isNil |-> FALSE, vec |-> res, err |-> err]
\* The (result, error) pair the resolver returns.
ResolverReturn(err, res) ==
  IF err # nil
    THEN [returned |-> TRUE, isNil |-> TRUE, vec |-> <<>>, err |-> err]
    ELSE [returned |-> TRUE, isNil |-> FALSE, vec |-> res, err |-> nil]

\* fmt.Errorf("failed to get total points for rank %d: %v", rank, err)
RankError(rank, err) ==
  Wrap(ErrLayer("failed to get total points for rank", -1, "", rank), err)

\* Faulty variant: a plain assignment, the last error wins.
CaptureLast(done, cur, e) == e
\* finalErr after once.Do(func() { finalErr = e }).
CaptureOnce(done, cur, e) == IF done THEN cur ELSE e

\* Faulty variant: the points land in the neighbouring slot.
StoreShifted(res, i, v) == [res EXCEPT ![(i % Len(res)) + 1] = v]
\* result[i] = totalPoints
StoreResult(res, i, v) == [res EXCEPT ![i] = v]

\* Faulty variant: the error sent last is received.
SelectLast(ch) == IF ch = <<>> THEN nil ELSE ch[Len(ch)]
\* select { case err := <-errChan: ...; default: ... }
SelectErr(ch) == IF ch = <<>> THEN nil ELSE Head(ch)

\* Faulty variant: room for one error fewer than there are goroutines.
ChanCapShort == Len(Percentiles) - 1
\* errChan := make(chan error, len(percentForTop)): the capacity.
ChanCap == Len(Percentiles)

\* Faulty variant: the loop stops one round early.
LastRoundEarly(n) == n >= Len(Percentiles) - 1
\* Whether round n of the dispatch loop is its last.
LastRound(n) == n = Len(Percentiles)

\* Faulty variant: the goroutine returns without wg.Done().
DoneForgotten(w) == w
\* defer wg.Done()
WgDone(w) == w - 1

\* Faulty variant: the resolver does not wait.
WaitSkipped(w) == TRUE
\* wg.Wait() returns when the counter is zero.
WaitReturns(w) == w = 0

\* The resolver is called: it calls getTotalWallets, which calls the fetcher.
Resolve ==
  /\ pc = "Idle"
  /\ pc' = "FetchingTotal"
  /\ fetch' = [fetch EXCEPT ![0] = StartFetch(BaseURL)]
  /\ UNCHANGED <<variant, totalUsers, task, next, wg, result, once, finalErr,
                 errChan, ret, finished, rk>>

\* Faulty variant: the error of getTotalWallets is ignored.
GoesOnAlways(err) == TRUE
\* Whether the resolver goes on after getTotalWallets returned err.
GoesOn(err) == err = nil

\* getTotalWallets returns: the resolver fails, or makes the result buffer
\* and enters the dispatch loop.
TotalReturned ==
  /\ pc = "FetchingTotal"
  /\ fetch[0].st = "ret"
  /\ LET r == GetTotalWallets(fetch[0])
     IN  IF GoesOn(r.err)
           THEN /\ totalUsers' = r.val
                /\ result' = [i \in Tasks |-> 0]
                /\ pc' = "DispatchingLookups"
                /\ ret' = ret
           ELSE /\ ret' = ResolverReturn(
                            Wrap(Msg("failed to get total wallets"), r.err), <<>>)
                /\ pc' = "Failed"
                /\ UNCHANGED <<totalUsers, result>>
  /\ UNCHANGED <<variant, fetch, task, next, wg, once, finalErr, errChan,
                 finished, rk>>

\* One round of the dispatch loop: wg.Add(1); go func(i, percent).  After the
\* last round the resolver is at wg.Wait().
Dispatch ==
  /\ pc = "DispatchingLookups"
  /\ next <= Len(Percentiles)
  /\ wg' = wg + 1
  /\ task' = [task EXCEPT ![next].pc = "spawned"]
  /\ next' = next + 1
  /\ pc' = IF LastRound(next) THEN "Aggregating" ELSE pc
  /\ UNCHANGED <<variant, totalUsers, fetch, result, once, finalErr, errChan,
                 ret, finished, rk>>

\* rank := int(float64(totalUsers) * percent), tabulated for the totals the
\* backend reports and the percentiles of the run.
Ranks == [t \in Totals |-> [i \in Tasks |-> RankOf(t, Percentiles[i])]]

\* Goroutine i computes its rank and calls the lookup, which calls the
\* fetcher with ?page=<rank>&size=1.
TaskStart(i) ==
  /\ task[i].pc = "spawned"
  /\ LET rank == Ranks[totalUsers][i]
     IN  /\ task' = [task EXCEPT ![i] = [pc |-> "lookup", rank |-> rank]]
         /\ fetch' = [fetch EXCEPT ![i] = StartFetch(rank)]
  /\ UNCHANGED <<variant, pc, totalUsers, next, wg, result, once, finalErr,
                 errChan, ret, finished, rk>>

\* The lookup of goroutine i returns: the goroutine captures the error or
\* stores the points in its slot, and its deferred wg.Done() runs.
TaskFinish(i) ==
  /\ task[i].pc = "lookup"
  /\ fetch[i].st = "ret"
  /\ LET r == GetTotalPoints(fetch[i])
         e == RankError(task[i].rank, r.err)
     IN  IF r.err # nil
           THEN /\ IF variant = "once"
                     THEN /\ finalErr' = CaptureOnce(once, finalErr, e)
                          /\ once' = TRUE
                          /\ errChan' = errChan
                     ELSE /\ Len(errChan) < ChanCap
                          /\ errChan' = Append(errChan, e)
                          /\ UNCHANGED <<once, finalErr>>
                /\ result' = result
           ELSE /\ result' = StoreResult(result, i, r.val)
                /\ UNCHANGED <<once, finalErr, errChan>>
  /\ task' = [task EXCEPT ![i].pc = "done"]
  /\ wg' = WgDone(wg)
  /\ finished' = Append(finished, i)
  /\ UNCHANGED <<variant, pc, totalUsers, fetch, next, ret, rk>>

\* wg.Wait() returns and the resolver returns the error it finds, or the
\* buffer.
Join ==
  /\ pc = "Aggregating"
  /\ WaitReturns(wg)
  /\ LET err == IF variant = "once" THEN finalErr ELSE SelectErr(errChan)
     IN  /\ ret' = ResolverReturn(err, result)
         /\ pc' = IF err # nil THEN "Failed" ELSE "Succeeded"
         /\ errChan' = IF variant = "once" \/ errChan = <<>>
                         THEN errChan ELSE Tail(errChan)
  /\ UNCHANGED <<variant, totalUsers, fetch, task, next, wg, result, once,
                 finalErr, finished, rk>>

Next ==
  \/ Resolve
  \/ \E c \in Callers : FetchAttempt(c)
  \/ TotalReturned
  \/ Dispatch
  \/ \E i \in Tasks : TaskStart(i)
  \/ \E i \in Tasks : TaskFinish(i)
  \/ Join

Spec == Init /\ [][Next]_vars

\* The goroutines the resolver starts are all scheduled, and every client.Do
\* returns within the client's timeout: a step that stays possible is
\* eventually taken.
FairSpec == Spec /\ WF_vars(Next)

(***************************************************************************)
(* The rank expression on its own: one evaluation of                       *)
(* int(float64(totalUsers) * percent) for a total and an entry of          *)
(* percentForTop.                                                          *)
(***************************************************************************)
BigTotals == {1000, 2000, 9999, 10000, 30000, 999999, 1000000, 1048575}

RankTotals == (0..MaxRankTotal) \cup BigTotals

RankInit ==
  /\ variant = "once"
  /\ ResolverInit
  /\ rk \in [total : RankTotals, idx : 1..Len(percentForTop), st : {"idle"},
             rank : {-1}]

ComputeRank ==
  /\ rk.st = "idle"
  /\ rk' = [rk EXCEPT !.st = "done",
                      !.rank = RankOf(rk.total, percentForTop[rk.idx])]
  /\ UNCHANGED resolverVars

RankSpec == RankInit /\ [][ComputeRank]_vars

(***************************************************************************)
(* Vocabulary of the properties.                                           *)
(***************************************************************************)
\* The lookup of goroutine i has returned, and what it returned.
LookupReturned(i) == fetch[i].st = "ret"

LookupFailed(i) == LookupReturned(i) /\ GetTotalPoints(fetch[i]).err # nil

LookupSucceeded(i) == LookupReturned(i) /\ GetTotalPoints(fetch[i]).err = nil

\* The error goroutine i hands to the error capture when its lookup failed.
TaskError(i) == RankError(task[i].rank, GetTotalPoints(fetch[i]).err)

IsTransport(reply) == reply.transport

IsNon200(reply) == ~reply.transport /\ reply.status # 200

IsDecodable200(reply) == ~reply.transport /\ reply.status = 200 /\ reply.decodes

\* C1 -- All-or-nothing failure: once the resolver has returned, if the lookup
\* of at least one goroutine failed then the resolver returned an error and a
\* nil result, never a vector, whatever the other goroutines stored.
C1_AllOrNothing ==
  (ret.returned /\ \E i \in Tasks : LookupFailed(i))
    => (ret.isNil /\ ret.vec = <<>> /\ ret.err # nil /\ pc = "Failed")

\* A run where one goroutine failed and another one stored its points before
\* the resolver returned.
C1_Witness ==
  /\ ret.returned
  /\ \E i, j \in Tasks :
       /\ LookupFailed(i)
       /\ LookupSucceeded(j)
       /\ result[j] # 0

\* C2 -- Order-preserving aggregation: when the resolver succeeds, element i of
\* the returned vector is the value the lookup of Percentiles[i] obtained, and
\* that lookup asked for the rank derived from Percentiles[i] and the fetched
\* total, in whatever order the goroutines completed.
C2_OrderPreserved ==
  pc = "Succeeded" =>
    \A i \in Tasks :
      /\ LookupSucceeded(i)
      /\ ret.vec[i] = GetTotalPoints(fetch[i]).val
      /\ fetch[i].url = task[i].rank
      /\ task[i].rank = FloorOfProduct(totalUsers, Percentiles[i])

\* A successful run whose goroutines completed against the index order and
\* obtained different values at different ranks.
C2_Witness ==
  /\ pc = "Succeeded"
  /\ finished[1] = Len(Percentiles)
  /\ ret.vec[1] # ret.vec[Len(Percentiles)]
  /\ task[1].rank # task[Len(Percentiles)].rank

\* C3 -- A non-200 status is never retried: an attempt answered with a status
\* other than 200 is the last attempt of its fetch, the fetch has returned the
\* bad-status error carrying that status code and body, and when it was the
\* first attempt exactly one attempt was made.
C3_BadStatusNotRetried ==
  \A c \in Callers :
    \A k \in 1..Len(fetch[c].replies) :
      IsNon200(fetch[c].replies[k]) =>
        /\ k = Len(fetch[c].replies)
        /\ fetch[c].calls = k
        /\ fetch[c].st = "ret"
        /\ fetch[c].err = <<ErrLayer("non-200 status code",
                                     fetch[c].replies[k].status,
                                     fetch[c].replies[k].raw, -1)>>
        /\ (k = 1 => fetch[c].calls = 1)

\* The retrying fetcher gets a non-200 on the first attempt of one fetch and on
\* the second attempt of another.
C3_Witness ==
  /\ variant = "once"
  /\ \E c \in Callers :
       /\ fetch[c].calls = 1
       /\ IsNon200(fetch[c].replies[1])
  /\ \E c \in Callers :
       /\ fetch[c].calls = 2
       /\ IsNon200(fetch[c].replies[2])
       /\ fetch[c].replies[2].status = 404

\* Whether every reply the fetch of caller c has got is a transport error.
AllTransport(c) ==
  \A k \in 1..Len(fetch[c].replies) : IsTransport(fetch[c].replies[k])

AfterRetriesError ==
  Wrap(Msg("error sending request after retries"), <<Msg("transport")>>)

\* C4 -- The fetcher tolerates two transient failures: a fetch gives up on a
\* transport error only when that was its third attempt, and a fetch whose
\* first two attempts failed with a transport error and whose third attempt
\* got a 200 with a decodable body returns that decoded response.
C4_ToleratesTwoTransient ==
  \A c \in Callers :
    LET f == fetch[c]
        n == Len(f.replies)
    IN  /\ (f.st = "ret" /\ n > 0 /\ IsTransport(f.replies[n]))
             => f.calls = retryLimit
        /\ (n = retryLimit /\ IsTransport(f.replies[1]) /\ IsTransport(f.replies[2])
              /\ IsDecodable200(f.replies[retryLimit]))
             => (f.st = "ret" /\ f.err = nil /\ f.response = f.replies[retryLimit].data)

\* C4, for the fetcher with the retry loop alone (src/main.go:178,
\* src/unnamed/part_000:50).
C4_RetryingFetcherTolerates == variant = "once" => C4_ToleratesTwoTransient

\* The retrying fetcher returns the response of a third attempt.
C4_RetryingWitness ==
  /\ variant = "once"
  /\ \E c \in Callers :
       /\ fetch[c].calls = retryLimit
       /\ fetch[c].err = nil
       /\ fetch[c].st = "ret"

\* C5 -- Retry exhaustion (the fetcher with the retry loop): while every
\* attempt of a fetch fails with a transport error the fetch makes at most 3
\* attempts, having slept attemptIndex+1 seconds after failed attempt
\* attemptIndex for attemptIndex = 0 and 1; it returns only after the third
\* attempt, with the after-retries error, having slept 1 then 2 seconds and
\* nothing after the last attempt.
C5_RetryExhaustion ==
  variant = "once" =>
    \A c \in Callers :
      LET f == fetch[c]
      IN  (AllTransport(c) /\ f.st # "idle") =>
            /\ f.calls <= retryLimit
            /\ Len(f.slept) = (IF f.calls < retryLimit THEN f.calls ELSE retryLimit - 1)
            /\ \A k \in 1..Len(f.slept) : f.slept[k] = k
            /\ f.st = "loop" => (f.calls < retryLimit /\ f.attempts = f.calls)
            /\ f.st = "ret" =>
                 /\ f.calls = retryLimit
                 /\ f.err = AfterRetriesError
                 /\ f.slept = <<1, 2>>

\* A fetch that failed three times with a transport error and has returned.
C5_Witness ==
  /\ variant = "once"
  /\ \E c \in Callers :
       /\ fetch[c].st = "ret"
       /\ Len(fetch[c].replies) = 3
       /\ AllTransport(c)

\* C6 -- Total before lookups: a goroutine exists, or a lookup request has been
\* issued, only after the fetch of the total returned without error; and when
\* that fetch failed the resolver's next step is to fail with the error
\* wrapping the cause, no goroutine ever having been started.
C6_TotalBeforeLookups ==
  /\ \A i \in Tasks :
       (task[i].pc # "unborn" \/ fetch[i].st # "idle" \/ fetch[i].calls > 0)
         => /\ fetch[0].st = "ret"
            /\ fetch[0].err = nil
            /\ totalUsers = fetch[0].response.Total
            /\ pc \notin {"Idle", "FetchingTotal"}
  /\ (fetch[0].st = "ret" /\ fetch[0].err # nil)
       => /\ pc \in {"FetchingTotal", "Failed"}
          /\ next = 1 /\ wg = 0
          /\ \A i \in Tasks : task[i].pc = "unborn" /\ fetch[i] = IdleFetch
          /\ pc = "Failed" =>
               /\ ret.returned /\ ret.isNil
               /\ ret.err = Wrap(Msg("failed to get total wallets"),
                                 Wrap(Msg("failed to get total wallets"),
                                      fetch[0].err))

\* The fetch of the total failed and the resolver has failed.
C6_Witness ==
  /\ pc = "Failed"
  /\ fetch[0].st = "ret"
  /\ fetch[0].err # nil
  /\ ret.returned

NoUsersError == <<Msg("no users found in response")>>

\* Goroutine i has completed with a failed lookup before any other failing
\* goroutine completed: its error is the first to reach the error capture.
FirstToFail(i) ==
  \E k \in 1..Len(finished) :
    /\ finished[k] = i
    /\ LookupFailed(i)
    /\ \A m \in 1..(k - 1) : ~LookupFailed(finished[m])

\* The error the resolver reported is the one goroutine i handed over: its own
\* rank with its own cause.
ReportedIsOwn ==
  (ret.returned /\ ret.err # nil /\ fetch[0].err = nil)
    => \E i \in Tasks : LookupFailed(i) /\ ret.err = TaskError(i)

\* The error capture holds an error / a step writes an error to it.
SlotHolds == finalErr # nil \/ errChan # <<>>

SlotWrite == finalErr' # finalErr \/ Len(errChan') > Len(errChan)

EmptyLookup(i) ==
  /\ LookupReturned(i)
  /\ fetch[i].err = nil
  /\ fetch[i].response.Users = <<>>

\* What holds of an empty lookup whichever error the resolver reports: it is
\* the last attempt of its fetch, the lookup failed with the empty-result
\* error, and the slot keeps its initial value.
EmptyLookupFails(i) ==
  /\ \A k \in 1..Len(fetch[i].replies) :
       (IsDecodable200(fetch[i].replies[k])
          /\ fetch[i].replies[k].data.Users = <<>>)
         => (k = Len(fetch[i].replies) /\ fetch[i].calls = k
               /\ fetch[i].st = "ret")
  /\ EmptyLookup(i) =>
       /\ GetTotalPoints(fetch[i]).err = NoUsersError
       /\ result[i] = 0
       /\ ret.returned => (pc = "Failed" /\ ret.isNil /\ ret.err # nil)

\* C8 as stated -- Empty result is an error tied to its rank: an empty lookup
\* for rank r fails without retry, its slot is never written, and the resolver
\* fails with the error that references rank r and wraps the empty-result
\* cause.
C8_EmptyResultReported ==
  \A i \in Tasks :
    /\ EmptyLookupFails(i)
    /\ (EmptyLookup(i) /\ ret.returned)
         => ret.err = RankError(task[i].rank, NoUsersError)

\* C8, amended -- An empty lookup for rank r fails without retry, its slot is
\* never written and the resolver fails; the resolver's error references rank
\* r and wraps the empty-result cause when that goroutine is the first to fail
\* (so when it is the only one), and is another failing goroutine's error
\* otherwise.
C8_EmptyResultFails ==
  \A i \in Tasks :
    /\ EmptyLookupFails(i)
    /\ (EmptyLookup(i) /\ ret.returned /\ FirstToFail(i))
         => ret.err = RankError(task[i].rank, NoUsersError)
    /\ (EmptyLookup(i) /\ ret.returned /\ ~FirstToFail(i))
         => \E j \in Tasks : j # i /\ FirstToFail(j) /\ ret.err = TaskError(j)

\* The resolver failed on an empty lookup at a rank above 0 while another
\* goroutine stored its points.
C8_Witness ==
  /\ ret.returned
  /\ \E i, j \in Tasks :
       /\ EmptyLookup(i)
       /\ task[i].rank > 0
       /\ FirstToFail(i)
       /\ LookupSucceeded(j)
       /\ ret.err = RankError(task[i].rank, NoUsersError)

\* v is x tenths with the fraction dropped, toward zero.
IsTruncation(v, x) ==
  /\ x >= 0 => (10 * v <= x /\ x < 10 * v + 10)
  /\ x < 0 => (10 * v >= x /\ x > 10 * v - 10)

\* C9 -- A successful result is complete and correct: when the lookups were
\* dispatched and none failed the resolver succeeds; the vector it returns has
\* one element per percentile, every goroutine has completed, and element i is
\* the total score of the first entry returned for rank
\* floor(total * Percentiles[i]), with the fraction dropped toward zero.
C9_SuccessComplete ==
  /\ (ret.returned /\ fetch[0].err = nil /\ \A i \in Tasks : ~LookupFailed(i))
       => pc = "Succeeded"
  /\ pc = "Succeeded" =>
       /\ ret.returned /\ ~ret.isNil /\ ret.err = nil
       /\ Len(ret.vec) = Len(Percentiles)
       /\ \A i \in Tasks :
            /\ task[i].pc = "done"
            /\ \E k \in 1..Len(finished) : finished[k] = i
            /\ fetch[i].url = FloorOfProduct(totalUsers, Percentiles[i])
            /\ fetch[i].response.Users # <<>>
            /\ IsTruncation(ret.vec[i], fetch[i].response.Users[1].TotalScore)

\* A successful run that returned 5000 for a score of 5000.7 and -1 for a
\* score of -1.5.
C9_Witness ==
  /\ pc = "Succeeded"
  /\ \E i, j \in Tasks :
       /\ fetch[i].response.Users[1].TotalScore = 50007
       /\ ret.vec[i] = 5000
       /\ fetch[j].response.Users[1].TotalScore = -15
       /\ ret.vec[j] = -1

\* C10 -- Rank derivation: for a total >= 0 and an entry p of percentForTop
\* the rank expression evaluates to floor(total * p), p the decimal of the
\* source, and so lies between 0 and the total.
C10_RankIsFloor ==
  rk.st = "done" =>
    /\ rk.rank = FloorOfProduct(rk.total, percentForTop[rk.idx])
    /\ 0 <= rk.rank
    /\ rk.rank <= rk.total

\* total = 50 at 0.06, whose float64 lies below 0.06: the product is rounded to
\* 3 and the rank is 3.
C10_Witness ==
  /\ rk.st = "done"
  /\ rk.total = 50
  /\ percentForTop[rk.idx].num = 3
  /\ percentForTop[rk.idx].den = 50
  /\ rk.rank = 3

\* Goroutine i has been started and has not completed.
Running(i) == task[i].pc \in {"spawned", "lookup"}

\* C11 -- Join before read: the resolver has read the buffer and the captured
\* error, and returned, only with every dispatched goroutine completed; once
\* it has returned no goroutine is running and the buffer and the error
\* capture are not written any more.
C11_JoinBeforeRead ==
  /\ [](ret.returned =>
          /\ wg = 0
          /\ \A i \in Tasks : ~Running(i)
          /\ \A i \in Tasks : ~ENABLED TaskFinish(i))
  /\ [][ret.returned =>
          (result' = result /\ finalErr' = finalErr
             /\ Len(errChan') <= Len(errChan))]_vars
  /\ [][(~ret.returned /\ ret'.returned /\ fetch[0].err = nil)
          => (\A i \in Tasks : task[i].pc = "done")]_vars

\* The resolver returned after a goroutine of three attempts had completed
\* before one of a single attempt that was dispatched earlier.
C11_Witness ==
  /\ ret.returned
  /\ \E i, j \in Tasks :
       /\ fetch[i].calls = retryLimit
       /\ fetch[j].calls = 1
       /\ finished[1] = i
       /\ i > j

\* C12 -- Disjoint slot ownership: a step that changes slot j of the buffer is
\* the completion of goroutine j after a successful lookup, stores that
\* lookup's value and changes no other slot; a completed goroutine never
\* writes again; and the slot of a goroutine that has not completed, or that
\* failed, holds the initial value.
C12_DisjointSlots ==
  /\ [][result # <<>> =>
          \A j \in Tasks :
            result'[j] # result[j] =>
              /\ task[j].pc = "lookup" /\ task'[j].pc = "done"
              /\ LookupSucceeded(j)
              /\ result'[j] = GetTotalPoints(fetch[j]).val
              /\ \A k \in Tasks \ {j} : result'[k] = result[k]]_vars
  /\ [][\A j \in Tasks :
          task[j].pc = "done" => (task'[j].pc = "done" /\ result'[j] = result[j])]_vars
  /\ [](result # <<>> =>
          \A i \in Tasks :
            (task[i].pc # "done" \/ LookupFailed(i)) => result[i] = 0)

\* Before the join: one goroutine has stored its points, another has failed
\* and left its slot, and the first of them to complete was the later one.
C12_Witness ==
  /\ pc = "Aggregating"
  /\ ~ret.returned
  /\ \E i, j \in Tasks :
       /\ i < j
       /\ task[i].pc = "done" /\ LookupFailed(i) /\ result[i] = 0
       /\ task[j].pc = "done" /\ LookupSucceeded(j) /\ result[j] # 0
       /\ finished[1] = j

IsUndecodable200(reply) ==
  ~reply.transport /\ reply.status = 200 /\ ~reply.decodes

\* C13 -- Decode errors are never retried: an attempt answered with a 200
\* whose body does not decode is the last attempt of its fetch, which has
\* returned the decode error, however few attempts were made.
C13_DecodeNotRetried ==
  \A c \in Callers :
    \A k \in 1..Len(fetch[c].replies) :
      IsUndecodable200(fetch[c].replies[k]) =>
        /\ k = Len(fetch[c].replies)
        /\ fetch[c].calls = k
        /\ fetch[c].st = "ret"
        /\ fetch[c].err = DecodeError
        /\ fetch[c].slept = [j \in 1..(k - 1) |-> j]

\* The retrying fetcher gets an undecodable body on the first attempt of one
\* fetch and, after one transport error, on the second attempt of another.
C13_Witness ==
  /\ variant = "once"
  /\ \E c, d \in Callers :
       /\ fetch[c].calls = 1
       /\ IsUndecodable200(fetch[c].replies[1])
       /\ fetch[d].calls = 2
       /\ IsUndecodable200(fetch[d].replies[2])
       /\ fetch[d].st = "ret"

RECURSIVE SumCalls(_)
\* The HTTP attempts made so far by the fetches of callers 0..c.
SumCalls(c) == fetch[c].calls + (IF c = 0 THEN 0 ELSE SumCalls(c - 1))

Terminal == pc \in {"Succeeded", "Failed"}

\* C14 -- Termination: when every HTTP attempt returns, every resolver call
\* eventually reaches Succeeded or Failed and has returned; a single fetch
\* makes at most 3 attempts, so the call makes at most 3 * (N + 1) attempts
\* in all, where N is the number of percentiles.
C14_Termination ==
  /\ <>(Terminal /\ ret.returned)
  /\ [](\A c \in Callers : fetch[c].calls <= 3)
  /\ [](SumCalls(Len(Percentiles)) <= 3 * (Len(Percentiles) + 1))

\* A resolver call ended after every one of its fetches, the total's
\* included, had used all three attempts: the bound is met.
C14_Witness ==
  /\ Terminal
  /\ ret.returned
  /\ \A i \in Tasks : fetch[i].calls = retryLimit
  /\ SumCalls(Len(Percentiles)) = 3 * (Len(Percentiles) + 1)

\* The lookup of percentile i has been invoked.
LookupInvoked(i) == fetch[i].st # "idle"

SomeOtherFailed(i) == \E j \in Tasks \ {i} : task[j].pc = "done" /\ LookupFailed(j)

\* C15 -- One lookup per percentile, no retry and no cancellation at the
\* resolver: no lookup is invoked before the total is known; an invoked lookup
\* is never invoked again (its fetch keeps its URL and its record of
\* attempts, and is frozen once it has returned); a goroutine that was
\* dispatched can always take its next step, whatever the other goroutines
\* have reported; and when the resolver returns after a successful total,
\* the lookup of every percentile has been invoked and has returned.
C15_OneLookupEach ==
  /\ [](\A i \in Tasks :
          /\ LookupInvoked(i) => (fetch[0].st = "ret" /\ fetch[0].err = nil)
          /\ task[i].pc = "spawned" => (~LookupInvoked(i) /\ ENABLED TaskStart(i))
          /\ (task[i].pc = "lookup" /\ fetch[i].st = "loop") => ENABLED FetchAttempt(i)
          /\ (task[i].pc = "lookup" /\ fetch[i].st = "ret") => ENABLED TaskFinish(i)
          /\ task[i].pc = "done" => LookupReturned(i))
  /\ [][\A i \in Tasks :
          /\ LookupInvoked(i) =>
               /\ task'[i].pc # "spawned"
               /\ fetch'[i].url = fetch[i].url
               /\ fetch'[i].calls >= fetch[i].calls
               /\ Len(fetch'[i].replies) >= Len(fetch[i].replies)
          /\ LookupReturned(i) => fetch'[i] = fetch[i]
          /\ (~LookupInvoked(i) /\ LookupInvoked(i)')
               => (task[i].pc = "spawned" /\ fetch'[i].calls = 0)]_vars
  /\ []((ret.returned /\ fetch[0].err = nil)
          => \A i \in Tasks : task[i].pc = "done" /\ LookupInvoked(i))

\* A lookup was invoked, and ran to a successful end, after the lookup of
\* another percentile had already failed and been reported; the resolver then
\* returned with every lookup invoked once.
C15_Witness ==
  /\ ret.returned
  /\ \A i \in Tasks : task[i].pc = "done"
  /\ \E i, j \in Tasks :
       /\ i # j
       /\ finished[1] = i
       /\ LookupFailed(i)
       /\ LookupSucceeded(j)
       /\ fetch[j].calls = 2

\* total * p < 1 for the percentile of goroutine i.
BelowOne(i) == totalUsers * Percentiles[i].num < Percentiles[i].den

\* C16 -- Rank 0 is not guarded: where total * p < 1 (total = 0 included) the
\* goroutine is started like any other, computes rank 0 and asks for page=0;
\* the resolver does not return before that request was made, and the
\* outcome for the index is the backend's answer for page 0: its first
\* entry's score in the slot, or its failure reported for rank 0.
C16_RankZeroLookedUp ==
  \A i \in Tasks :
    (fetch[0].st = "ret" /\ fetch[0].err = nil /\ BelowOne(i)) =>
      /\ task[i].pc = "spawned" => ENABLED TaskStart(i)
      /\ LookupInvoked(i) => (task[i].rank = 0 /\ fetch[i].url = 0)
      /\ (task[i].pc = "lookup" /\ fetch[i].st = "loop") => ENABLED FetchAttempt(i)
      /\ ret.returned => (task[i].pc = "done" /\ fetch[i].calls >= 1)
      /\ (task[i].pc = "done" /\ LookupSucceeded(i)) =>
           result[i] = TruncToInt(FirstUser(fetch[i].response.Users).TotalScore)
      /\ (task[i].pc = "done" /\ LookupFailed(i)) => TaskError(i)[1].rank = 0
      /\ (ret.returned /\ \A j \in Tasks : LookupSucceeded(j)) =>
           (pc = "Succeeded" /\ ret.vec[i] = result[i])

\* Of a non-zero total the first percentile is below one user and the second
\* is not: the resolver succeeded with the score of page 0 in the first slot.
C16_Witness ==
  /\ totalUsers = 5000
  /\ pc = "Succeeded"
  /\ BelowOne(1) /\ ~BelowOne(2)
  /\ task[1].rank = 0 /\ task[2].rank = 5
  /\ fetch[1].url = 0
  /\ ret.vec[1] = 5000

\* The goroutines that have sent an error.
Senders == {i \in Tasks : task[i].pc = "done" /\ LookupFailed(i)}

\* C17 -- Channel-based error capture cannot block or deadlock: in the program
\* with the buffered channel the capacity is the number of goroutines and
\* each failing goroutine sends one error, so the channel never holds more
\* than its capacity, a goroutine whose lookup has returned can always
\* finish (its send finds room), the wait ends once all goroutines are done
\* even when all of them failed, and the resolver returns the error that was
\* sent first, leaving the others in the channel.
C17_ChannelNeverBlocks ==
  variant = "chan" =>
    /\ ChanCap = Cardinality(Tasks)
    /\ Len(errChan) <= ChanCap
    /\ ~ret.returned => Len(errChan) = Cardinality(Senders)
    /\ \A i \in Tasks :
         (task[i].pc = "lookup" /\ LookupReturned(i)) =>
           (Len(errChan) < ChanCap /\ ENABLED TaskFinish(i))
    /\ (pc = "Aggregating" /\ \A i \in Tasks : task[i].pc = "done") =>
         (wg = 0 /\ ENABLED Join)
    /\ (pc = "Aggregating" /\ \E i \in Tasks : task[i].pc # "done") =>
         \E i \in Tasks : \/ ENABLED TaskStart(i)
                          \/ ENABLED FetchAttempt(i)
                          \/ ENABLED TaskFinish(i)
    /\ (ret.returned /\ Senders # {}) =>
         /\ pc = "Failed"
         /\ \E i \in Tasks : FirstToFail(i) /\ ret.err = TaskError(i)
         /\ Len(errChan) = Cardinality(Senders) - 1

\* Every goroutine failed and sent its error, the last send filling the
\* channel; the resolver returned the error sent first, which differs from
\* the one sent after it.
C17_Witness ==
  /\ variant = "chan"
  /\ ret.returned
  /\ Cardinality(Senders) = ChanCap
  /\ Len(errChan) = ChanCap - 1
  /\ ret.err = TaskError(finished[1])
  /\ ret.err # TaskError(finished[2])

\* The aggregation of the do-once program run over the first k completions
\* of the history: what each goroutine does with its lookup's outcome
\* (src/main.go:254-259), in the order in which they reached that point.
RECURSIVE OnceFold(_)
OnceFold(k) ==
  IF k = 0
    THEN [once |-> FALSE, finalErr |-> nil, result |-> [j \in Tasks |-> 0]]
  ELSE LET p == OnceFold(k - 1)
           i == finished[k]
           r == GetTotalPoints(fetch[i])
       IN  IF r.err # nil
             THEN [p EXCEPT !.finalErr = CaptureOnce(p.once, p.finalErr,
                                                     RankError(task[i].rank, r.err)),
                            !.once = TRUE]
             ELSE [p EXCEPT !.result = StoreResult(p.result, i, r.val)]

\* The same completions through the channel program (src/main.go:107-112).
RECURSIVE ChanFold(_)
ChanFold(k) ==
  IF k = 0
    THEN [errChan |-> <<>>, result |-> [j \in Tasks |-> 0]]
  ELSE LET p == ChanFold(k - 1)
           i == finished[k]
           r == GetTotalPoints(fetch[i])
       IN  IF r.err # nil
             THEN [p EXCEPT !.errChan = Append(p.errChan,
                                               RankError(task[i].rank, r.err))]
             ELSE [p EXCEPT !.result = StoreResult(p.result, i, r.val)]

\* What either program returns after wg.Wait() for the completions so far.
OnceOutcome ==
  LET p == OnceFold(Len(finished)) IN ResolverReturn(p.finalErr, p.result)

ChanOutcome ==
  LET p == ChanFold(Len(finished)) IN ResolverReturn(SelectErr(p.errChan), p.result)

\* C18 -- The two aggregation variants are observationally equivalent: for the
\* same total, the same lookup outcomes and the same order of completion the
\* do-once aggregation and the channel aggregation return the same outcome,
\* which is the outcome the running program returns: the result vector on
\* success, and on failure a nil result with the error of the goroutine that
\* reached the error capture first.
C18_VariantsEquivalent ==
  (fetch[0].st = "ret" /\ fetch[0].err = nil) =>
    /\ OnceOutcome = ChanOutcome
    /\ ret.returned =>
         /\ Len(finished) = Cardinality(Tasks)
         /\ ret = OnceOutcome
         /\ ret = ChanOutcome
         /\ Senders = {} =>
              (~ret.isNil /\ ret.err = nil
                 /\ ret.vec = [j \in Tasks |-> GetTotalPoints(fetch[j]).val])
         /\ Senders # {} =>
              (ret.isNil /\ ret.vec = <<>>
                 /\ \E i \in Tasks : FirstToFail(i) /\ ret.err = TaskError(i))

\* The resolver returned after the goroutine dispatched last failed first
\* with a bad status and the one dispatched first failed later on an empty
\* page (outcomes that both fetchers produce): the error returned is the
\* former's, as both aggregations compute it.
C18_Witness ==
  /\ ret.returned
  /\ Len(finished) = Cardinality(Tasks)
  /\ finished[1] = Len(Percentiles)
  /\ finished[Len(finished)] = 1
  /\ LookupFailed(1) /\ EmptyLookup(1)
  /\ LookupFailed(Len(Percentiles))
  /\ IsNon200(fetch[Len(Percentiles)].replies[1])
  /\ ret.err = TaskError(Len(Percentiles))
  /\ ret.err # TaskError(1)
  /\ ret = ChanOutcome

RetriesExceeded == <<Msg("retries exceeded")>>

\* The errors the fetchers return from inside the loop (or, without a loop,
\* from the body).
InLoopError(e) ==
  \/ e \in {AfterRetriesError, DecodeError,
            Wrap(Msg("error sending request"), <<Msg("transport")>>)}
  \/ Len(e) = 1 /\ e[1].msg = "non-200 status code"

\* C19 -- The statement after the retry loop is unreachable: no fetch ever
\* returns "retries exceeded"; a fetch that is between attempts satisfies the
\* loop condition, the last allowed attempt always returns, every error
\* returned comes from inside the loop, and a fetch that ends on a transport
\* error in the retrying fetcher has used every attempt and returns the
\* "after retries" error around that transport error.
C19_RetriesExceededUnreachable ==
  \A c \in Callers :
    LET f == fetch[c]
        n == Len(f.replies)
    IN  /\ f.err # RetriesExceeded
        /\ f.st = "loop" => (LoopCond(f.attempts) /\ f.attempts = f.calls)
        /\ f.calls = retryLimit => f.st = "ret"
        /\ f.attempts <= retryLimit - 1
        /\ (f.st = "ret" /\ f.err # nil) => InLoopError(f.err)
        /\ (variant = "once" /\ f.st = "ret" /\ n > 0 /\ IsTransport(f.replies[n])) =>
             /\ n = retryLimit
             /\ f.attempts = retryLimit - 1
             /\ f.err = AfterRetriesError
             /\ f.err[2] = Msg("transport")

\* One fetch of the retrying fetcher gave up on its last allowed attempt with
\* the "after retries" error, its loop counter still below the limit, while
\* another returned from inside the loop on an attempt that followed a retry.
C19_Witness ==
  /\ variant = "once"
  /\ \E c, d \in Callers :
       /\ fetch[c].err = AfterRetriesError
       /\ fetch[c].attempts = retryLimit - 1
       /\ fetch[c].calls = retryLimit
       /\ fetch[d].st = "ret"
       /\ fetch[d].attempts = 1
       /\ fetch[d].err = nil

====
